---- MODULE Spec2Model ----
(***************************************************************************)
(* Release-management scheduling engine: the minute poll and the per-step  *)
(* timers (server/schedulerService.ts), the step and plan routes           *)
(* (server/routes.ts), the completion notifier (server/emailService.ts)    *)
(* and the persistence gateway (server/storage.ts) over the tables of      *)
(* shared/schema.                                                          *)
(*                                                                         *)
(* Every awaited persistence call is one atomic step of the thread that    *)
(* makes it; the synchronous code that follows the await belongs to the    *)
(* same step.  Threads are the asynchronous tasks of the single event      *)
(* loop; each keeps a call stack of frames (top of stack first).           *)
(***************************************************************************)
EXTENDS Naturals, Sequences, FiniteSets, TLC

\* ------------------------------------------------------------------ bounds
MaxOps == 2
MaxSeqOps == 3
MaxConcOps == 2
MaxDelOps == 2
MaxTimerOps == 3
MaxFaultOps == 2
MaxFaults == 1
MaxEditOps == 2
MaxSlowOps == 2
MaxLiveOps == 3
MaxCycleOps == 3
MaxCancelOps == 2
MaxLen == 3

\* --------------------------------------------------------------- universes
StepIds == {"A", "B", "C"}
NoStep == "none"
Plans == {"P1", "P2"}
Statuses == {"not_started", "started", "in_progress", "completed", "failed"}
ReqThreads == {"r1", "r2"}
Threads == {"tick", "timer"} \cup ReqThreads

VARIABLES
  steps,        \* release_steps table: step id -> row
  planStatus,   \* release_plans.status, per plan
  hist,         \* step_history rows per step, oldest first
  notif,        \* trigger notifications requested, per step
  sysUser,      \* whether the users table holds a row with id 'system'
  emailInit,    \* emailService.initialized
  now,          \* the clock, in minutes
  threads,      \* call stack of every asynchronous task
  ops,          \* poll ticks, requests and engine calls started
  lastWrite,    \* the latest release_steps.status write
  trig,         \* trigger writes per step since it was last written not_started
  passTrig,     \* steps written by the running checkDependentSteps pass
  crcDone,      \* plans for which a checkReleaseCompletion call has returned in the current all-completed period
  derIn,        \* input of the status derivation under SpecDerive
  derOut,       \* its result
  cronJobs,     \* SchedulerService.cronJobs: step id -> registered timer, 0 if none
  jobs,         \* the timers created by scheduleStep, in creation order
  faults        \* the calls that failed: which call, for which step

vars == <<steps, planStatus, hist, notif, sysUser, emailInit, now,
          threads, ops, lastWrite, trig, passTrig, crcDone,
          derIn, derOut, cronJobs, jobs, faults>>

\* ------------------------------------------------------------------ tables
\* A row of release_steps (shared/schema): the columns the engine reads.
StepRow(ex, pl, st, ty, rf, sc, pc) ==
  [exists |-> ex, plan |-> pl, status |-> st, stype |-> ty, ref |-> rf,
   sched |-> sc, poc |-> pc]

Absent == StepRow(FALSE, "P1", "not_started", "manual", NoStep, 0, FALSE)

\* The step configurations the model starts from; every step is not_started.
\*   chain: A fixed_time at time 1, B after_step A, C simultaneous with B
\*   pair:  A manual, B simultaneous with A
\*   late:  A fixed_time at time 2
\*   solo:  A after_step without a dependency
Scenarios ==
  { [s \in StepIds |->
       CASE s = "A" -> StepRow(TRUE, "P1", "not_started", "fixed_time", NoStep, 1, TRUE)
         [] s = "B" -> StepRow(TRUE, "P1", "not_started", "after_step", "A", 0, TRUE)
         [] OTHER   -> StepRow(TRUE, "P1", "not_started", "simultaneous", "B", 0, FALSE)],
    [s \in StepIds |->
       CASE s = "A" -> StepRow(TRUE, "P1", "not_started", "manual", NoStep, 0, TRUE)
         [] s = "B" -> StepRow(TRUE, "P1", "not_started", "simultaneous", "A", 0, FALSE)
         [] OTHER   -> Absent],
    [s \in StepIds |->
       CASE s = "A" -> StepRow(TRUE, "P1", "not_started", "fixed_time", NoStep, 2, TRUE)
         [] OTHER   -> Absent],
    [s \in StepIds |->
       CASE s = "A" -> StepRow(TRUE, "P1", "not_started", "after_step", NoStep, 0, TRUE)
         [] OTHER   -> Absent] }

\* ------------------------------------------------------------------ frames
\* A frame holds the locals of one call: fn the function, pc the next awaited
\* call, list/i the fetched rows and the loop index, rows their scheduling
\* columns as fetched, sid/pid/val the step, plan
\* and status arguments, cur the status read earlier, t0 the captured clock,
\* org/dep which check asked for a trigger and the dependency status it read,
\* over the status a trigger's updateStep replaced, again/eff the bookkeeping
\* of checkReleaseCompletion calls.
F0 ==
  [fn |-> "", pc |-> "", list |-> <<>>, rows |-> <<>>, i |-> 1, sid |-> NoStep, pid |-> "P1",
   val |-> "", cur |-> "", t0 |-> 0, org |-> "", dep |-> "", again |-> FALSE,
   eff |-> "", over |-> ""]

Idle(t) == threads[t] = <<>>
Top(t) == Head(threads[t])
Running(t, fn, pc) == ~Idle(t) /\ Top(t).fn = fn /\ Top(t).pc = pc

\* Replace the top frame / push a callee above the (updated) caller.
SetTop(t, f) == [threads EXCEPT ![t] = <<f>> \o Tail(@)]
Call(t, caller, callee) == [threads EXCEPT ![t] = <<callee, caller>> \o Tail(@)]

\* The scheduling columns of the rows a query returns: schedulingType, the
\* referenced step (dependsOnStepId or simultaneousWithStepId), scheduledTime.
Fetched ==
  [s \in StepIds |-> [stype |-> steps[s].stype, ref |-> steps[s].ref,
                      sched |-> steps[s].sched]]

\* All orders in which a query without ORDER BY may return the rows S.
Perms(S) ==
  { q \in [1..Cardinality(S) -> S] :
      \A a, b \in 1..Cardinality(S) : a # b => q[a] # q[b] }

\* ----------------------------------------------------- persistence gateway
getStepsForScheduling ==
  { s \in StepIds : steps[s].exists /\ steps[s].stype = "fixed_time"
                      /\ steps[s].status = "not_started" }

getStepsByStatus(st) == { s \in StepIds : steps[s].exists /\ steps[s].status = st }

getStepsByReleasePlan(p) == { s \in StepIds : steps[s].exists /\ steps[s].plan = p }

\* ORDER BY release_steps.order: the statuses of a plan's steps, A before B before C.
RECURSIVE StatusesIn(_, _)
StatusesIn(order, p) ==
  IF order = <<>> THEN <<>>
  ELSE (IF Head(order) \in getStepsByReleasePlan(p)
          THEN <<steps[Head(order)].status>> ELSE <<>>)
       \o StatusesIn(Tail(order), p)

planStatuses(p) == StatusesIn(<<"A", "B", "C">>, p)

RECURSIVE every(_, _)
every(sts, st) == sts = <<>> \/ (Head(sts) = st /\ every(Tail(sts), st))

RECURSIVE some(_, _)
some(sts, S) == sts # <<>> /\ (Head(sts) \in S \/ some(Tail(sts), S))

\* An update that leaves the status column as it is.
updateStepKeepsStatus(s, st) == steps

\* updateStep(id, {status}): the row after the write, and the bookkeeping.
updateStep(s, st) == [steps EXCEPT ![s].status = st]

\* An UPDATE of a deleted row changes nothing (and does not throw).
WriteStatus(s, st, by) ==
  IF steps[s].exists
    THEN /\ steps' = updateStep(s, st)
         /\ lastWrite' = [by |-> by, step |-> s, prev |-> steps[s].status, new |-> st]
         /\ trig' = [trig EXCEPT ![s] = IF st = "not_started" THEN 0
                                        ELSE IF by \in {"engine", "manual"} THEN @ + 1
                                        ELSE @]
         /\ crcDone' = crcDone \ {steps[s].plan}
    ELSE UNCHANGED <<steps, lastWrite, trig, crcDone>>

\* addStepHistory: step_history.changed_by references users.id.
ForeignKeyOk(by) == by # "system" \/ sysUser

\* step_history.step_id references release_steps.id.
StepKeyOk(s) == steps[s].exists

\* updateReleasePlan(id, {status}): an UPDATE of a deleted plan changes nothing.
updateReleasePlan(p, st) ==
  IF planStatus[p] = "deleted" THEN planStatus ELSE [planStatus EXCEPT ![p] = st]

\* An insert that would take the place of the step's earlier rows.
addStepHistoryOverwrite(s, prev, new, by, note, over) ==
  [hist EXCEPT ![s] = <<[prev |-> prev, new |-> new, by |-> by,
                         note |-> note, over |-> over]>>]

\* A row keeps, besides its columns, the status that the logged write replaced.
addStepHistory(s, prev, new, by, note, over) ==
  [hist EXCEPT ![s] = Append(@, [prev |-> prev, new |-> new, by |-> by,
                                 note |-> note, over |-> over])]

\* ---------------------------------------------------------- initial state
NoWrite == [by |-> "none", step |-> NoStep, prev |-> "", new |-> ""]

InitCommon ==
  /\ planStatus = [p \in Plans |-> "planning"]
  /\ hist = [s \in StepIds |-> <<>>]
  /\ notif = [s \in StepIds |-> 0]
  /\ sysUser \in BOOLEAN
  /\ emailInit \in BOOLEAN
  /\ now = 0
  /\ threads = [t \in Threads |-> <<>>]
  /\ ops = 0
  /\ lastWrite = NoWrite
  /\ trig = [s \in StepIds |-> 0]
  /\ passTrig = {}
  /\ crcDone = {}
  /\ derIn = <<>>
  /\ derOut = ""
  /\ cronJobs = [s \in StepIds |-> 0]
  /\ jobs = <<>>
  /\ faults = {}

Init ==
  /\ steps \in Scenarios
  /\ InitCommon

\* ------------------------------------------------------- scheduling engine
\* A fixed-time test that passes in the minute of the scheduled time only.
IsDueOnTheMinute(row, t0) == row.sched # 0 /\ row.sched = t0

\* The fixed-time test of checkScheduledSteps (line 37), on a fetched row.
IsDue(row, t0) == row.sched # 0 /\ row.sched <= t0

\* The rows a loop does something with: checkScheduledSteps (line 37),
\* checkDependentSteps (lines 54, 60: the rows it calls getStep for) and
\* checkSimultaneousSteps (line 123).
Candidate(f, s) ==
  CASE f.fn = "checkScheduledSteps" -> IsDue(f.rows[s], f.t0)
    [] f.fn = "checkDependentSteps" ->
         f.rows[s].stype \in {"after_step", "simultaneous"} /\ f.rows[s].ref # NoStep
    [] f.fn = "checkSimultaneousSteps" ->
         f.rows[s].stype = "simultaneous" /\ f.rows[s].ref = f.sid
    [] OTHER -> FALSE

\* The index of the next row of the loop of f that it acts on, Len + 1 if none.
NextIdx(f) ==
  LET J == { j \in f.i..Len(f.list) : Candidate(f, f.list[j]) }
  IN IF J = {} THEN Len(f.list) + 1 ELSE CHOOSE j \in J : \A k \in J : j <= k

\* Synchronous continuation: a loop without a further row and a finished callee
\* return to the caller; the outermost frame stays, finished, until Return.
RECURSIVE Unwind(_)
Unwind(st) ==
  IF st = <<>> THEN st
  ELSE LET f == Head(st) IN
       IF f.pc = "loop" /\ NextIdx(f) > Len(f.list)
         THEN IF Len(st) > 1 THEN Unwind(Tail(st)) ELSE <<[f EXCEPT !.pc = "ret"]>>
       ELSE IF f.pc = "ret" /\ Len(st) > 1 THEN Unwind(Tail(st))
       ELSE st

Continue(t, st) == [threads EXCEPT ![t] = Unwind(st)]

\* startMainScheduler: the cron callback, run at every minute, awaits
\* checkScheduledSteps, then checkDependentSteps.  checkScheduledSteps starts
\* with getStepsForScheduling and captures now.
TickStart(lim) ==
  /\ Idle("tick")
  /\ ops < lim
  /\ ops' = ops + 1
  /\ now' = now + 1
  /\ \E q \in Perms(getStepsForScheduling) :
       threads' = Continue("tick",
                     << [F0 EXCEPT !.fn = "checkScheduledSteps", !.pc = "loop",
                                   !.list = q, !.rows = Fetched,
                                   !.t0 = now + 1],
                        [F0 EXCEPT !.fn = "tick", !.pc = "dependent"] >>)
  /\ UNCHANGED <<steps, planStatus, hist, notif, sysUser, emailInit, lastWrite,
                 trig, passTrig, crcDone, derIn, derOut,
                 cronJobs, jobs, faults>>

\* The loop of checkScheduledSteps at its next due row: triggerStep(step).
checkScheduledSteps(t) ==
  /\ Running(t, "checkScheduledSteps", "loop")
  /\ LET f == Top(t)
         j == NextIdx(f)
     IN threads' = Call(t, [f EXCEPT !.i = j + 1],
                        [F0 EXCEPT !.fn = "triggerStep", !.pc = "update",
                                   !.sid = f.list[j], !.org = "fixed_time"])
  /\ UNCHANGED <<steps, planStatus, hist, notif, sysUser, emailInit, now,
                 ops, lastWrite, trig, passTrig, crcDone, derIn, derOut,
                 cronJobs, jobs, faults>>

\* What the caller of checkDependentSteps awaits next: the cron callback
\* (line 25) nothing, onStepStatusChange (line 221) checkReleaseCompletion.
AfterDependent(fn) == IF fn = "onStepStatusChange" THEN "release" ELSE "ret"

\* checkDependentSteps begins with getStepsByStatus('not_started').
DependentFetch(t) ==
  /\ ~Idle(t)
  /\ Top(t).pc = "dependent"
  /\ \E q \in Perms(getStepsByStatus("not_started")) :
       threads' = Continue(t,
                     << [F0 EXCEPT !.fn = "checkDependentSteps", !.pc = "loop",
                                      !.list = q, !.rows = Fetched],
                        [Top(t) EXCEPT !.pc = AfterDependent(Top(t).fn)] >>
                        \o Tail(threads[t]))
  /\ passTrig' = {}
  /\ UNCHANGED <<steps, planStatus, hist, notif, sysUser, emailInit, now,
                 ops, lastWrite, trig, crcDone, derIn, derOut,
                 cronJobs, jobs, faults>>

\* getStep: the status of the referenced row, "" when there is no such row.
getStepStatus(r) == IF r \in StepIds /\ steps[r].exists THEN steps[r].status ELSE ""

\* A dependency test that would also accept a dependency still under way.
DependencyStarted(st) == st \in {"started", "in_progress", "completed"}

\* The two tests of checkDependentSteps on the row read by getStep.
DependencyCompleted(st) == st = "completed"
SimultaneousStarted(st) == st = "started"

\* The loop of checkDependentSteps at its next row with a reference: getStep
\* of the referenced step, the test, and triggerStep(step) if it passes.
checkDependentSteps(t) ==
  /\ Running(t, "checkDependentSteps", "loop")
  /\ LET f == Top(t)
         j == NextIdx(f)
         s == f.list[j]
         g == [f EXCEPT !.i = j + 1]
         d == getStepStatus(f.rows[s].ref)
         go == IF f.rows[s].stype = "after_step"
                 THEN DependencyCompleted(d) ELSE SimultaneousStarted(d)
     IN IF go
          THEN threads' = Call(t, g, [F0 EXCEPT !.fn = "triggerStep", !.pc = "update",
                                  !.sid = s, !.org = f.rows[s].stype, !.dep = d])
          ELSE threads' = Continue(t, <<g>> \o Tail(threads[t]))
  /\ UNCHANGED <<steps, planStatus, hist, notif, sysUser, emailInit, now,
                 ops, lastWrite, trig, passTrig, crcDone, derIn, derOut,
                 cronJobs, jobs, faults>>

\* triggerStep, line 78: updateStep(step.id, {status: 'started', startedAt}).
TriggerUpdate(t) ==
  /\ Running(t, "triggerStep", "update")
  /\ LET f == Top(t) IN
       /\ WriteStatus(f.sid, "started", "engine")
       /\ threads' = SetTop(t, [f EXCEPT !.pc = "history", !.over = steps[f.sid].status])
       /\ passTrig' = passTrig \cup {f.sid}
  /\ UNCHANGED <<planStatus, hist, notif, sysUser, emailInit, now, ops,
                 derIn, derOut,
                 cronJobs, jobs, faults>>

\* triggerStep, line 84: addStepHistory with changedBy 'system'; a rejected
\* insert throws into the catch of line 111 and triggerStep returns.
TriggerHistory(t) ==
  /\ Running(t, "triggerStep", "history")
  /\ LET f == Top(t) IN
       IF ForeignKeyOk("system") /\ StepKeyOk(f.sid)
         THEN /\ hist' = addStepHistory(f.sid, "not_started", "started", "system", "auto", f.over)
              /\ threads' = SetTop(t, [f EXCEPT !.pc = "notify"])
         ELSE /\ hist' = hist
              /\ threads' = Continue(t, <<[f EXCEPT !.pc = "ret"]>> \o Tail(threads[t]))
  /\ UNCHANGED <<steps, planStatus, notif, sysUser, emailInit, now, ops,
                 lastWrite, trig, passTrig, crcDone, derIn, derOut,
                 cronJobs, jobs, faults>>

\* triggerStep, lines 93-109: the notification to the primary POC, the
\* broadcast, then checkSimultaneousSteps(step.id) and its getStepsByStatus.
TriggerNotify(t) ==
  /\ Running(t, "triggerStep", "notify")
  /\ LET f == Top(t) IN
       /\ notif' = [notif EXCEPT ![f.sid] = IF steps[f.sid].poc THEN @ + 1 ELSE @]
       /\ \E q \in Perms(getStepsByStatus("not_started")) :
            threads' = Continue(t,
                          << [F0 EXCEPT !.fn = "checkSimultaneousSteps", !.pc = "loop",
                                        !.list = q, !.rows = Fetched, !.sid = f.sid],
                             [f EXCEPT !.pc = "ret"] >> \o Tail(threads[t]))
  /\ UNCHANGED <<steps, planStatus, hist, sysUser, emailInit, now, ops,
                 lastWrite, trig, passTrig, crcDone, derIn, derOut,
                 cronJobs, jobs, faults>>

\* The loop of checkSimultaneousSteps(triggeredStepId) at its next row that is
\* simultaneous with the triggered step: triggerStep(step).
checkSimultaneousSteps(t) ==
  /\ Running(t, "checkSimultaneousSteps", "loop")
  /\ LET f == Top(t)
         j == NextIdx(f)
     IN threads' = Call(t, [f EXCEPT !.i = j + 1],
                        [F0 EXCEPT !.fn = "triggerStep", !.pc = "update",
                                   !.sid = f.list[j], !.org = "cascade"])
  /\ UNCHANGED <<steps, planStatus, hist, notif, sysUser, emailInit, now,
                 ops, lastWrite, trig, passTrig, crcDone, derIn, derOut,
                 cronJobs, jobs, faults>>

\* The outermost call of a task has finished: the task ends.
Return(t) ==
  /\ ~Idle(t)
  /\ Top(t).pc = "ret"
  /\ threads' = [threads EXCEPT ![t] = <<>>]
  /\ crcDone' = IF Top(t).fn = "checkReleaseCompletion" /\ Top(t).eff = "notified"
                  THEN crcDone \cup {Top(t).pid} ELSE crcDone
  /\ passTrig' = IF t = "tick" THEN {} ELSE passTrig
  /\ UNCHANGED <<steps, planStatus, hist, notif, sysUser, emailInit, now,
                 ops, lastWrite, trig, derIn, derOut,
                 cronJobs, jobs, faults>>

\* ------------------------------------------------- plan status derivation
\* A derivation whose hasStarted ignores completed steps.
newStatusStartedOnly(sts) ==
  LET hasStarted == some(sts, {"started", "in_progress"})
      allCompleted == every(sts, "completed")
  IN IF allCompleted THEN "completed"
     ELSE IF hasStarted THEN "active"
     ELSE "planning"

\* updateReleasePlanStatus, lines 26-37: the status derived from the statuses
\* of a plan's steps.
newStatus(sts) ==
  LET hasStarted == some(sts, {"started", "in_progress", "completed"})
      allCompleted == every(sts, "completed")
  IN IF allCompleted THEN "completed"
     ELSE IF hasStarted THEN "active"
     ELSE "planning"

\* updateReleasePlanStatus, line 24: nothing is written for a plan without steps.
HasSteps(p) == getStepsByReleasePlan(p) # {}

\* updateReleasePlanStatus, lines 23-37, called by a route whose step write
\* and history row are done: getStepsByReleasePlan and the derivation.
updateReleasePlanStatus(t) ==
  /\ ~Idle(t)
  /\ Top(t).pc = "derive"
  /\ LET f == Top(t)
         p == steps[f.sid].plan
         g == [f EXCEPT !.pc = "completion"]
     IN IF HasSteps(p)
          THEN threads' = Call(t, g, [F0 EXCEPT !.fn = "updateReleasePlanStatus",
                            !.pc = "write", !.pid = p, !.val = newStatus(planStatuses(p))])
          ELSE threads' = SetTop(t, g)
  /\ UNCHANGED <<steps, planStatus, hist, notif, sysUser, emailInit, now,
                 ops, lastWrite, trig, passTrig, crcDone, derIn, derOut,
                 cronJobs, jobs, faults>>

\* updateReleasePlanStatus, line 40: updateReleasePlan(id, {status: newStatus}).
PlanStatusWrite(t) ==
  /\ Running(t, "updateReleasePlanStatus", "write")
  /\ planStatus' = updateReleasePlan(Top(t).pid, Top(t).val)
  /\ threads' = Continue(t, <<[Top(t) EXCEPT !.pc = "ret"]>> \o Tail(threads[t]))
  /\ UNCHANGED <<steps, hist, notif, sysUser, emailInit, now, ops, lastWrite,
                 trig, passTrig, crcDone, derIn, derOut,
                 cronJobs, jobs, faults>>

\* ------------------------------------------------------ completion checks
\* The completion test without the steps.length > 0 conjunct.
AllCompletedVacuous(p) == every(planStatuses(p), "completed")

\* checkReleaseCompletion, lines 175-177: allCompleted && steps.length > 0.
AllCompleted(p) == every(planStatuses(p), "completed") /\ Len(planStatuses(p)) > 0

\* checkAndNotifyReleaseCompletion, lines 265-277: the early returns.
ShouldNotify(p) ==
  /\ emailInit
  /\ planStatus[p] # "deleted"
  /\ Len(planStatuses(p)) # 0
  /\ every(planStatuses(p), "completed")

\* emailService.checkAndNotifyReleaseCompletion, lines 265-277, called by a
\* route after updateReleasePlanStatus: getReleasePlan and getStepsByReleasePlan.
checkAndNotifyReleaseCompletion(t) ==
  /\ ~Idle(t)
  /\ Top(t).pc = "completion"
  /\ LET f == Top(t)
         p == steps[f.sid].plan
         g == [f EXCEPT !.pc = "ret"]
     IN IF ShouldNotify(p)
          THEN threads' = Call(t, g, [F0 EXCEPT !.fn = "checkAndNotifyReleaseCompletion",
                                                 !.pc = "notify", !.pid = p])
          ELSE threads' = SetTop(t, g)
  /\ UNCHANGED <<steps, planStatus, hist, notif, sysUser, emailInit, now,
                 ops, lastWrite, trig, passTrig, crcDone, derIn, derOut,
                 cronJobs, jobs, faults>>

\* checkAndNotifyReleaseCompletion, lines 298-307: the getUser calls and
\* sendReleaseCompletionNotification.
CompletionNotify(t) ==
  /\ Running(t, "checkAndNotifyReleaseCompletion", "notify")
  /\ threads' = SetTop(t, [Top(t) EXCEPT !.pc = "write", !.eff = "notified"])
  /\ UNCHANGED <<steps, planStatus, hist, notif, sysUser, emailInit, now,
                 ops, lastWrite, trig, passTrig, crcDone, derIn, derOut,
                 cronJobs, jobs, faults>>

\* checkAndNotifyReleaseCompletion, line 311: updateReleasePlan(id, {status: 'completed'}).
CompletionWrite(t) ==
  /\ Running(t, "checkAndNotifyReleaseCompletion", "write")
  /\ planStatus' = updateReleasePlan(Top(t).pid, "completed")
  /\ threads' = Continue(t, <<[Top(t) EXCEPT !.pc = "ret"]>> \o Tail(threads[t]))
  /\ UNCHANGED <<steps, hist, notif, sysUser, emailInit, now, ops, lastWrite,
                 trig, passTrig, crcDone, derIn, derOut,
                 cronJobs, jobs, faults>>

\* A request or call may start on thread t: r2 is used only while r1 is busy.
Free(t, lim) ==
  /\ t \in ReqThreads
  /\ Idle(t)
  /\ t = "r2" => ~Idle("r1")
  /\ ops < lim

\* schedulerService.checkReleaseCompletion(releasePlanId), lines 174-177:
\* getStepsByReleasePlan and the test.
checkReleaseCompletion(t, p, lim) ==
  /\ Free(t, lim)
  /\ ops' = ops + 1
  /\ threads' = [threads EXCEPT ![t] =
       << [F0 EXCEPT !.fn = "checkReleaseCompletion", !.pid = p,
                     !.again = (p \in crcDone),
                     !.pc = IF AllCompleted(p) THEN "write" ELSE "ret"] >>]
  /\ UNCHANGED <<steps, planStatus, hist, notif, sysUser, emailInit, now,
                 lastWrite, trig, passTrig, crcDone, derIn, derOut,
                 cronJobs, jobs, faults>>

\* checkReleaseCompletion, line 179: updateReleasePlan(id, {status: 'completed'}).
ReleaseCompletionWrite(t) ==
  /\ Running(t, "checkReleaseCompletion", "write")
  /\ planStatus' = updateReleasePlan(Top(t).pid, "completed")
  /\ threads' = SetTop(t, [Top(t) EXCEPT !.pc = "notify", !.eff = "wrote"])
  /\ UNCHANGED <<steps, hist, notif, sysUser, emailInit, now, ops, lastWrite,
                 trig, passTrig, crcDone, derIn, derOut,
                 cronJobs, jobs, faults>>

\* checkReleaseCompletion, lines 191-201: getUsersByIds,
\* sendReleaseCompletionNotification and the release_completed broadcast.
ReleaseCompletionNotify(t) ==
  /\ Running(t, "checkReleaseCompletion", "notify")
  /\ threads' = SetTop(t, [Top(t) EXCEPT !.pc = "ret", !.eff = "notified"])
  /\ UNCHANGED <<steps, planStatus, hist, notif, sysUser, emailInit, now,
                 ops, lastWrite, trig, passTrig, crcDone, derIn, derOut,
                 cronJobs, jobs, faults>>

\* onStepStatusChange(stepId), lines 215-216: getStep and the status test;
\* checkDependentSteps follows for a completed step.
onStepStatusChange(t, s, lim) ==
  /\ Free(t, lim)
  /\ ops' = ops + 1
  /\ threads' = [threads EXCEPT ![t] =
       << [F0 EXCEPT !.fn = "onStepStatusChange", !.sid = s, !.pid = steps[s].plan,
                     !.pc = IF getStepStatus(s) = "completed" THEN "dependent"
                            ELSE "ret"] >>]
  /\ UNCHANGED <<steps, planStatus, hist, notif, sysUser, emailInit, now,
                 lastWrite, trig, passTrig, crcDone, derIn, derOut,
                 cronJobs, jobs, faults>>

\* onStepStatusChange, line 221: checkReleaseCompletion(step.releasePlanId),
\* its getStepsByReleasePlan and test (lines 174-177).
StatusChangeCompletion(t) ==
  /\ Running(t, "onStepStatusChange", "release")
  /\ LET f == Top(t)
         g == [f EXCEPT !.pc = "ret"]
     IN IF AllCompleted(f.pid)
          THEN threads' = Call(t, g, [F0 EXCEPT !.fn = "checkReleaseCompletion",
                                                 !.pid = f.pid, !.pc = "write",
                                                 !.again = (f.pid \in crcDone)])
          ELSE threads' = SetTop(t, g)
  /\ UNCHANGED <<steps, planStatus, hist, notif, sysUser, emailInit, now,
                 ops, lastWrite, trig, passTrig, crcDone, derIn, derOut,
                 cronJobs, jobs, faults>>

\* ------------------------------------------------------------- step routes
\* POST /api/steps, line 200: createStep(stepData).  The scheduler is not told.
CreateRoute(s, row, lim) ==
  /\ ops < lim
  /\ ~steps[s].exists
  /\ ops' = ops + 1
  /\ steps' = [steps EXCEPT ![s] = row]
  /\ UNCHANGED <<planStatus, hist, notif, sysUser, emailInit, now, threads,
                 lastWrite, trig, passTrig, crcDone, derIn, derOut,
                 cronJobs, jobs, faults>>

\* POST /api/steps/:id/trigger, lines 425-432: getStep and the status test.
TriggerRoute(t, s, lim) ==
  /\ Free(t, lim)
  /\ steps[s].exists
  /\ ops' = ops + 1
  /\ threads' = [threads EXCEPT ![t] =
       << [F0 EXCEPT !.fn = "triggerRoute", !.sid = s, !.cur = steps[s].status,
                     !.pc = IF steps[s].status # "not_started" THEN "ret" ELSE "update",
                     !.eff = IF steps[s].status # "not_started" THEN "400" ELSE ""] >>]
  /\ UNCHANGED <<steps, planStatus, hist, notif, sysUser, emailInit, now,
                 lastWrite, trig, passTrig, crcDone, derIn, derOut,
                 cronJobs, jobs, faults>>

\* POST /api/steps/:id/trigger, line 434: updateStep(id, {status: "started", startedAt}).
TriggerRouteUpdate(t) ==
  /\ Running(t, "triggerRoute", "update")
  /\ WriteStatus(Top(t).sid, "started", "manual")
  /\ threads' = SetTop(t, [Top(t) EXCEPT !.pc = "history",
                                         !.over = steps[Top(t).sid].status])
  /\ UNCHANGED <<planStatus, hist, notif, sysUser, emailInit, now, ops,
                 passTrig, derIn, derOut,
                 cronJobs, jobs, faults>>

\* POST /api/steps/:id/trigger, line 440: addStepHistory with changedBy user.id.
TriggerRouteHistory(t) ==
  /\ Running(t, "triggerRoute", "history")
  /\ IF StepKeyOk(Top(t).sid)
       THEN /\ hist' = addStepHistory(Top(t).sid, "not_started", "started", "user",
                                       "manual", Top(t).over)
            /\ threads' = SetTop(t, [Top(t) EXCEPT !.pc = "notify"])
       ELSE /\ hist' = hist
            /\ threads' = SetTop(t, [Top(t) EXCEPT !.pc = "ret", !.eff = "500"])
  /\ UNCHANGED <<steps, planStatus, notif, sysUser, emailInit, now, ops,
                 lastWrite, trig, passTrig, crcDone, derIn, derOut,
                 cronJobs, jobs, faults>>

\* POST /api/steps/:id/trigger, lines 449-468: sendStepTriggerNotification to
\* the assigned people, when there are any.
TriggerRouteNotify(t) ==
  /\ Running(t, "triggerRoute", "notify")
  /\ notif' = [notif EXCEPT ![Top(t).sid] = IF steps[Top(t).sid].poc THEN @ + 1 ELSE @]
  /\ threads' = SetTop(t, [Top(t) EXCEPT !.pc = "derive"])
  /\ UNCHANGED <<steps, planStatus, hist, sysUser, emailInit, now, ops,
                 lastWrite, trig, passTrig, crcDone, derIn, derOut,
                 cronJobs, jobs, faults>>

\* PATCH /api/steps/:id with body {status: st}, line 250: getStep.
PatchRoute(t, s, st, lim) ==
  /\ Free(t, lim)
  /\ steps[s].exists
  /\ ops' = ops + 1
  /\ threads' = [threads EXCEPT ![t] =
       << [F0 EXCEPT !.fn = "patchRoute", !.sid = s, !.val = st,
                     !.cur = steps[s].status, !.pc = "update"] >>]
  /\ UNCHANGED <<steps, planStatus, hist, notif, sysUser, emailInit, now,
                 lastWrite, trig, passTrig, crcDone, derIn, derOut,
                 cronJobs, jobs, faults>>

\* PATCH /api/steps/:id, lines 300-303: updateStep(id, updates), then the
\* comparison of updates.status with the status read by getStep.
PatchRouteUpdate(t) ==
  /\ Running(t, "patchRoute", "update")
  /\ WriteStatus(Top(t).sid, Top(t).val, "patch")
  /\ threads' = SetTop(t, [Top(t) EXCEPT
                  !.pc = IF Top(t).val # Top(t).cur THEN "history" ELSE "ret",
                  !.over = steps[Top(t).sid].status])
  /\ UNCHANGED <<planStatus, hist, notif, sysUser, emailInit, now, ops,
                 passTrig, derIn, derOut,
                 cronJobs, jobs, faults>>

\* PATCH /api/steps/:id, lines 304-346: addStepHistory with the status read by
\* getStep as previousStatus; the status-change notification and the
\* timestamp writes follow.
PatchRouteHistory(t) ==
  /\ Running(t, "patchRoute", "history")
  /\ IF StepKeyOk(Top(t).sid)
       THEN /\ hist' = addStepHistory(Top(t).sid, Top(t).cur, Top(t).val, "user",
                                       "edit", Top(t).over)
            /\ threads' = SetTop(t, [Top(t) EXCEPT !.pc = "derive"])
       ELSE /\ hist' = hist
            /\ threads' = SetTop(t, [Top(t) EXCEPT !.pc = "ret", !.eff = "500"])
  /\ UNCHANGED <<steps, planStatus, notif, sysUser, emailInit, now, ops,
                 lastWrite, trig, passTrig, crcDone, derIn, derOut,
                 cronJobs, jobs, faults>>

\* ------------------------------------------------------- failing calls
\* The functions whose body is one try/catch that logs and returns.
CatchesButDependent(fn) ==
  fn \in {"checkScheduledSteps", "triggerStep", "checkSimultaneousSteps"}

Catches(fn) ==
  fn \in {"checkScheduledSteps", "checkDependentSteps", "triggerStep",
           "checkSimultaneousSteps"}

\* An exception raised in the top frame: the innermost function with a catch
\* returns normally; without any, the exception leaves the callback.
RECURSIVE Throw(_)
Throw(st) ==
  LET f == Head(st) IN
    IF Catches(f.fn) THEN Unwind(<<[f EXCEPT !.pc = "ret"]>> \o Tail(st))
    ELSE IF Len(st) = 1 THEN <<[f EXCEPT !.pc = "escaped"]>>
    ELSE Throw(Tail(st))

\* A notification that fails with a raised exception.
NotifyThrowsOnFailure(outcome) == outcome = "failed"

\* sendStepTriggerNotification and sendEmail (emailService, lines 59-89 and
\* 177-210) catch and log: no outcome of the mail transport is thrown.
NotifyThrows(outcome) == FALSE

CanFail == Cardinality(faults) < MaxFaults
Fail(call, s, minute) == faults' = faults \cup {[call |-> call, at |-> s, tick |-> minute]}

\* checkScheduledSteps, line 33: getStepsForScheduling throws.
TickStartFails(lim) ==
  /\ Idle("tick")
  /\ ops < lim
  /\ CanFail
  /\ ops' = ops + 1
  /\ now' = now + 1
  /\ threads' = [threads EXCEPT !["tick"] =
       Throw(<< [F0 EXCEPT !.fn = "checkScheduledSteps", !.pc = "fetch"],
                [F0 EXCEPT !.fn = "tick", !.pc = "dependent"] >>)]
  /\ Fail("getStepsForScheduling", NoStep, now + 1)
  /\ UNCHANGED <<steps, planStatus, hist, notif, sysUser, emailInit, lastWrite,
                 trig, passTrig, crcDone, derIn, derOut, cronJobs, jobs>>

\* checkDependentSteps, line 51: getStepsByStatus throws.
DependentFetchFails(t) ==
  /\ ~Idle(t)
  /\ Top(t).pc = "dependent"
  /\ CanFail
  /\ threads' = [threads EXCEPT ![t] =
       Throw(<< [F0 EXCEPT !.fn = "checkDependentSteps", !.pc = "fetch"],
                [Top(t) EXCEPT !.pc = AfterDependent(Top(t).fn)] >>
                \o Tail(threads[t]))]
  /\ passTrig' = {}
  /\ Fail("getStepsByStatus", NoStep, now)
  /\ UNCHANGED <<steps, planStatus, hist, notif, sysUser, emailInit, now,
                 ops, lastWrite, trig, crcDone, derIn, derOut, cronJobs, jobs>>

\* checkDependentSteps, lines 55 and 61: getStep of the referenced step throws.
DependencyReadFails(t) ==
  /\ Running(t, "checkDependentSteps", "loop")
  /\ CanFail
  /\ threads' = [threads EXCEPT ![t] = Throw(threads[t])]
  /\ Fail("getStep", Top(t).list[NextIdx(Top(t))], now)
  /\ UNCHANGED <<steps, planStatus, hist, notif, sysUser, emailInit, now,
                 ops, lastWrite, trig, passTrig, crcDone, derIn, derOut,
                 cronJobs, jobs>>

\* triggerStep, line 78: updateStep throws.
TriggerUpdateFails(t) ==
  /\ Running(t, "triggerStep", "update")
  /\ CanFail
  /\ threads' = [threads EXCEPT ![t] = Throw(threads[t])]
  /\ Fail("updateStep", Top(t).sid, now)
  /\ UNCHANGED <<steps, planStatus, hist, notif, sysUser, emailInit, now,
                 ops, lastWrite, trig, passTrig, crcDone, derIn, derOut,
                 cronJobs, jobs>>

\* triggerStep, line 84: addStepHistory throws.
TriggerHistoryFails(t) ==
  /\ Running(t, "triggerStep", "history")
  /\ CanFail
  /\ threads' = [threads EXCEPT ![t] = Throw(threads[t])]
  /\ Fail("addStepHistory", Top(t).sid, now)
  /\ UNCHANGED <<steps, planStatus, hist, notif, sysUser, emailInit, now,
                 ops, lastWrite, trig, passTrig, crcDone, derIn, derOut,
                 cronJobs, jobs>>

\* triggerStep, line 94: getUser(step.primaryPocId) throws.
TriggerUserFails(t) ==
  /\ Running(t, "triggerStep", "notify")
  /\ steps[Top(t).sid].poc
  /\ CanFail
  /\ threads' = [threads EXCEPT ![t] = Throw(threads[t])]
  /\ Fail("getUser", Top(t).sid, now)
  /\ UNCHANGED <<steps, planStatus, hist, notif, sysUser, emailInit, now,
                 ops, lastWrite, trig, passTrig, crcDone, derIn, derOut,
                 cronJobs, jobs>>

\* triggerStep, line 96: the mail transport fails inside
\* sendStepTriggerNotification; triggerStep goes on with the broadcast and
\* checkSimultaneousSteps unless the failure is thrown at it.
TriggerNotifyFails(t) ==
  /\ Running(t, "triggerStep", "notify")
  /\ steps[Top(t).sid].poc
  /\ emailInit
  /\ CanFail
  /\ LET f == Top(t) IN
       /\ notif' = [notif EXCEPT ![f.sid] = @ + 1]
       /\ IF NotifyThrows("failed")
            THEN threads' = [threads EXCEPT ![t] = Throw(threads[t])]
            ELSE \E q \in Perms(getStepsByStatus("not_started")) :
                   threads' = Continue(t,
                      << [F0 EXCEPT !.fn = "checkSimultaneousSteps", !.pc = "loop",
                                    !.list = q, !.rows = Fetched, !.sid = f.sid],
                         [f EXCEPT !.pc = "ret"] >> \o Tail(threads[t]))
       /\ Fail("notify", f.sid, now)
  /\ UNCHANGED <<steps, planStatus, hist, sysUser, emailInit, now,
                 ops, lastWrite, trig, passTrig, crcDone, derIn, derOut,
                 cronJobs, jobs>>

\* triggerStep, line 101: the broadcast callback throws, after the notification.
BroadcastFails(t) ==
  /\ Running(t, "triggerStep", "notify")
  /\ CanFail
  /\ notif' = [notif EXCEPT ![Top(t).sid] = IF steps[Top(t).sid].poc THEN @ + 1 ELSE @]
  /\ threads' = [threads EXCEPT ![t] = Throw(threads[t])]
  /\ Fail("broadcast", Top(t).sid, now)
  /\ UNCHANGED <<steps, planStatus, hist, sysUser, emailInit, now,
                 ops, lastWrite, trig, passTrig, crcDone, derIn, derOut,
                 cronJobs, jobs>>

\* checkSimultaneousSteps, line 120: getStepsByStatus throws, after the
\* notification and the broadcast of the triggerStep that called it.
CascadeFetchFails(t) ==
  /\ Running(t, "triggerStep", "notify")
  /\ CanFail
  /\ notif' = [notif EXCEPT ![Top(t).sid] = IF steps[Top(t).sid].poc THEN @ + 1 ELSE @]
  /\ threads' = [threads EXCEPT ![t] =
       Throw(<< [F0 EXCEPT !.fn = "checkSimultaneousSteps", !.pc = "fetch",
                           !.sid = Top(t).sid],
                [Top(t) EXCEPT !.pc = "ret"] >> \o Tail(threads[t]))]
  /\ Fail("getStepsByStatus", Top(t).sid, now)
  /\ UNCHANGED <<steps, planStatus, hist, sysUser, emailInit, now,
                 ops, lastWrite, trig, passTrig, crcDone, derIn, derOut,
                 cronJobs, jobs>>

\* triggerStep, line 96: sendStepTriggerNotification is called and awaited;
\* the mail transport (sendEmail, line 81) has the request until it returns.
TriggerSend(t) ==
  /\ Running(t, "triggerStep", "notify")
  /\ steps[Top(t).sid].poc
  /\ emailInit
  /\ notif' = [notif EXCEPT ![Top(t).sid] = @ + 1]
  /\ threads' = SetTop(t, [Top(t) EXCEPT !.pc = "sending"])
  /\ UNCHANGED <<steps, planStatus, hist, sysUser, emailInit, now, ops,
                 lastWrite, trig, passTrig, crcDone, derIn, derOut,
                 cronJobs, jobs, faults>>

\* The send returns: triggerStep goes on with the broadcast (line 101) and
\* checkSimultaneousSteps (line 109).
SendReturns(t) ==
  /\ Running(t, "triggerStep", "sending")
  /\ \E q \in Perms(getStepsByStatus("not_started")) :
       threads' = Continue(t,
                     << [F0 EXCEPT !.fn = "checkSimultaneousSteps", !.pc = "loop",
                                   !.list = q, !.rows = Fetched, !.sid = Top(t).sid],
                        [Top(t) EXCEPT !.pc = "ret"] >> \o Tail(threads[t]))
  /\ UNCHANGED <<steps, planStatus, hist, notif, sysUser, emailInit, now, ops,
                 lastWrite, trig, passTrig, crcDone, derIn, derOut,
                 cronJobs, jobs, faults>>

Failures(t) ==
  \/ DependentFetchFails(t)
  \/ DependencyReadFails(t)
  \/ TriggerUpdateFails(t)
  \/ TriggerHistoryFails(t)
  \/ TriggerUserFails(t)
  \/ TriggerNotifyFails(t)
  \/ BroadcastFails(t)
  \/ CascadeFetchFails(t)

\* ------------------------------------------------------- per-step timers
\* scheduleStep(step), lines 132-160, for a fixed_time step with a scheduled
\* time: the registered timer, if any, is stopped and unregistered, a new one
\* is created for the minute of scheduledTime, registered and started.  For
\* any other step the call does nothing.
scheduleStep(s, lim) ==
  /\ ops < lim
  /\ steps[s].exists
  /\ ops' = ops + 1
  /\ IF steps[s].stype = "fixed_time" /\ steps[s].sched # 0
       THEN LET old == cronJobs[s]
                stopped == IF old # 0 THEN [jobs EXCEPT ![old].on = FALSE] ELSE jobs
            IN /\ jobs' = Append(stopped, [sid |-> s, at |-> steps[s].sched, made |-> now,
                                           on |-> TRUE, fired |-> FALSE])
               /\ cronJobs' = [cronJobs EXCEPT ![s] = Len(jobs) + 1]
       ELSE UNCHANGED <<jobs, cronJobs>>
  /\ UNCHANGED <<steps, planStatus, hist, notif, sysUser, emailInit, now, threads,
                 lastWrite, trig, passTrig, crcDone, derIn, derOut, faults>>

\* unscheduleStep(stepId), lines 162-168.
unscheduleStep(s, lim) ==
  /\ ops < lim
  /\ ops' = ops + 1
  /\ IF cronJobs[s] # 0
       THEN /\ jobs' = [jobs EXCEPT ![cronJobs[s]].on = FALSE]
            /\ cronJobs' = [cronJobs EXCEPT ![s] = 0]
       ELSE UNCHANGED <<jobs, cronJobs>>
  /\ UNCHANGED <<steps, planStatus, hist, notif, sysUser, emailInit, now, threads,
                 lastWrite, trig, passTrig, crcDone, derIn, derOut, faults>>

\* The timer j reaches its minute (scheduleStep, line 146): its callback calls
\* triggerStep with the step captured at registration.  The minute is the
\* one of the latest poll, or the one whose poll is about to start; a timer
\* made in or after its minute does not fire.
TimerFire(j) ==
  /\ j \in 1..Len(jobs)
  /\ jobs[j].on
  /\ ~jobs[j].fired
  /\ jobs[j].made < jobs[j].at
  /\ jobs[j].at = now \/ (jobs[j].at = now + 1 /\ Idle("tick"))
  /\ Idle("timer")
  /\ jobs' = [jobs EXCEPT ![j].fired = TRUE]
  /\ threads' = [threads EXCEPT !["timer"] =
       << [F0 EXCEPT !.fn = "triggerStep", !.pc = "update", !.sid = jobs[j].sid,
                     !.org = "timer"],
          [F0 EXCEPT !.fn = "timer", !.pc = "unregister", !.sid = jobs[j].sid] >>]
  /\ UNCHANGED <<steps, planStatus, hist, notif, sysUser, emailInit, now, ops,
                 lastWrite, trig, passTrig, crcDone, derIn, derOut, cronJobs, faults>>

\* The timer callback after triggerStep (line 149): cronJobs.delete(stepId).
TimerDone(t) ==
  /\ Running(t, "timer", "unregister")
  /\ cronJobs' = [cronJobs EXCEPT ![Top(t).sid] = 0]
  /\ threads' = SetTop(t, [Top(t) EXCEPT !.pc = "ret"])
  /\ UNCHANGED <<steps, planStatus, hist, notif, sysUser, emailInit, now, ops,
                 lastWrite, trig, passTrig, crcDone, derIn, derOut, jobs, faults>>

\* DELETE /api/steps/:id, line 402: deleteStep.  The delete is rejected while
\* another step references the row (depends_on_step_id,
\* simultaneous_with_step_id); the step's history rows go with it.
DeleteRoute(s, lim) ==
  /\ ops < lim
  /\ steps[s].exists
  /\ ops' = ops + 1
  /\ IF \E c \in StepIds : steps[c].exists /\ steps[c].ref = s
       THEN UNCHANGED <<steps, hist>>
       ELSE /\ steps' = [steps EXCEPT ![s].exists = FALSE]
            /\ hist' = [hist EXCEPT ![s] = <<>>]
  /\ UNCHANGED <<planStatus, notif, sysUser, emailInit, now, threads,
                 lastWrite, trig, passTrig, crcDone, derIn, derOut,
                 cronJobs, jobs, faults>>

\* DELETE /api/release-plans/:id, line 137: deleteReleasePlan; the plan's
\* steps and their history rows go with it.
DeletePlan(p, lim) ==
  /\ ops < lim
  /\ planStatus[p] # "deleted"
  /\ ops' = ops + 1
  /\ IF \E c \in StepIds : /\ steps[c].exists
                            /\ steps[c].plan # p
                            /\ steps[c].ref \in getStepsByReleasePlan(p)
       THEN UNCHANGED <<steps, hist, planStatus>>
       ELSE /\ steps' = [s \in StepIds |->
                          IF steps[s].plan = p THEN [steps[s] EXCEPT !.exists = FALSE]
                          ELSE steps[s]]
            /\ hist' = [s \in StepIds |-> IF steps[s].plan = p THEN <<>> ELSE hist[s]]
            /\ planStatus' = [planStatus EXCEPT ![p] = "deleted"]
  /\ UNCHANGED <<notif, sysUser, emailInit, now, threads,
                 lastWrite, trig, passTrig, crcDone, derIn, derOut,
                 cronJobs, jobs, faults>>

\* PATCH /api/steps/:id with body {schedulingType, scheduledTime}, line 300:
\* updateStep(id, updates).  No status is in the body: no history row, no plan
\* status update, and nothing is told to the scheduler.
EditRoute(s, ty, sc, lim) ==
  /\ ops < lim
  /\ steps[s].exists
  /\ ops' = ops + 1
  /\ steps' = [steps EXCEPT ![s].stype = ty, ![s].sched = sc]
  /\ UNCHANGED <<planStatus, hist, notif, sysUser, emailInit, now, threads,
                 lastWrite, trig, passTrig, crcDone, derIn, derOut,
                 cronJobs, jobs, faults>>

\* PATCH /api/release-plans/:id with body {status: st}, line 125:
\* updateReleasePlan(id, updates).
PatchPlan(p, st, lim) ==
  /\ ops < lim
  /\ planStatus[p] # "deleted"
  /\ ops' = ops + 1
  /\ planStatus' = updateReleasePlan(p, st)
  /\ UNCHANGED <<steps, hist, notif, sysUser, emailInit, now, threads,
                 lastWrite, trig, passTrig, crcDone, derIn, derOut,
                 cronJobs, jobs, faults>>

Engine(t) ==
  \/ checkScheduledSteps(t)
  \/ DependentFetch(t)
  \/ checkDependentSteps(t)
  \/ TriggerUpdate(t)
  \/ TriggerHistory(t)
  \/ TriggerNotify(t)
  \/ checkSimultaneousSteps(t)
  \/ ReleaseCompletionWrite(t)
  \/ ReleaseCompletionNotify(t)

Routes(t) ==
  \/ TriggerRouteUpdate(t)
  \/ TriggerRouteHistory(t)
  \/ TriggerRouteNotify(t)
  \/ PatchRouteUpdate(t)
  \/ PatchRouteHistory(t)
  \/ updateReleasePlanStatus(t)
  \/ PlanStatusWrite(t)
  \/ checkAndNotifyReleaseCompletion(t)
  \/ CompletionNotify(t)
  \/ CompletionWrite(t)

Steps(t) == Engine(t) \/ Routes(t) \/ Return(t)

Start(t, lim) ==
  \/ \E s \in StepIds : TriggerRoute(t, s, lim)
  \/ \E s \in StepIds, st \in Statuses : PatchRoute(t, s, st, lim)
  \/ \E p \in Plans : checkReleaseCompletion(t, p, lim)

\* Requests, engine calls and the poll run concurrently.
Next ==
  \/ TickStart(MaxOps)
  \/ Start("r1", MaxOps)
  \/ \E t \in Threads : Steps(t)

Spec == Init /\ [][Next]_vars

\* One operation at a time: a tick, a request or an engine call starts only
\* when nothing else is in flight.
AllIdle == \A t \in Threads : Idle(t)

NextSeq ==
  \/ AllIdle /\ TickStart(MaxSeqOps)
  \/ AllIdle /\ Start("r1", MaxSeqOps)
  \/ \E t \in Threads : Steps(t)

SpecSeq == Init /\ [][NextSeq]_vars

\* The poll and one request at a time, with steps and plans being deleted
\* meanwhile.
Deletes ==
  \/ \E s \in StepIds : DeleteRoute(s, MaxDelOps)
  \/ \E p \in Plans : DeletePlan(p, MaxDelOps)

NextDel ==
  \/ TickStart(MaxDelOps)
  \/ Start("r1", MaxDelOps)
  \/ Deletes
  \/ \E t \in Threads : Steps(t)

SpecDel == Init /\ [][NextDel]_vars

\* Timers next to the poll: steps are scheduled and unscheduled, triggered by
\* hand and deleted while the poll ticks and the timers fire.
TimerScenarios ==
  { [s \in StepIds |->
       CASE s = "A" -> StepRow(TRUE, "P1", "not_started", "fixed_time", NoStep, 1, TRUE)
         [] s = "B" -> StepRow(TRUE, "P1", "not_started", "simultaneous", "A", 0, FALSE)
         [] OTHER   -> Absent],
    [s \in StepIds |->
       CASE s = "A" -> StepRow(TRUE, "P1", "not_started", "fixed_time", NoStep, 2, TRUE)
         [] OTHER   -> Absent] }

Poll(t) ==
  \/ checkScheduledSteps(t)
  \/ DependentFetch(t)
  \/ checkDependentSteps(t)

Trigger(t) ==
  \/ TriggerUpdate(t)
  \/ TriggerHistory(t)
  \/ TriggerNotify(t)
  \/ checkSimultaneousSteps(t)

ManualTrigger(t) ==
  \/ TriggerRouteUpdate(t)
  \/ TriggerRouteHistory(t)
  \/ TriggerRouteNotify(t)
  \/ updateReleasePlanStatus(t)
  \/ PlanStatusWrite(t)
  \/ checkAndNotifyReleaseCompletion(t)

InitTimer ==
  /\ steps \in TimerScenarios
  /\ InitCommon

NextTimer ==
  \/ TickStart(MaxTimerOps)
  \/ \E s \in StepIds : scheduleStep(s, MaxTimerOps)
  \/ \E s \in StepIds : unscheduleStep(s, MaxTimerOps)
  \/ \E j \in 1..MaxTimerOps : TimerFire(j)
  \/ \E s \in StepIds : TriggerRoute("r1", s, MaxTimerOps)
  \/ \E s \in StepIds : DeleteRoute(s, MaxTimerOps)
  \/ \E t \in Threads : Poll(t) \/ Trigger(t) \/ ManualTrigger(t)
                            \/ TimerDone(t) \/ Return(t)

SpecTimer == InitTimer /\ [][NextTimer]_vars

\* The scheduling fields of steps are edited while the poll ticks and the
\* timers fire.
\*   A and B fixed_time at time 1, C simultaneous with A
EditScenarios ==
  { [s \in StepIds |->
       CASE s = "A" -> StepRow(TRUE, "P1", "not_started", "fixed_time", NoStep, 1, TRUE)
         [] s = "B" -> StepRow(TRUE, "P1", "not_started", "fixed_time", NoStep, 1, FALSE)
         [] OTHER   -> StepRow(TRUE, "P1", "not_started", "simultaneous", "A", 0, FALSE)] }

\* The bodies of the edits: the step becomes manual without a time, or
\* fixed_time at time 3.
Edits == { <<"manual", 0>>, <<"fixed_time", 3>> }

InitEdit ==
  /\ steps \in EditScenarios
  /\ InitCommon

NextEdit ==
  \/ TickStart(MaxEditOps)
  \/ \E s \in StepIds, e \in Edits : EditRoute(s, e[1], e[2], MaxEditOps)
  \/ \E s \in StepIds : scheduleStep(s, MaxEditOps)
  \/ \E j \in 1..MaxEditOps : TimerFire(j)
  \/ \E t \in Threads : Poll(t) \/ Trigger(t) \/ TimerDone(t) \/ Return(t)

SpecEdit == InitEdit /\ [][NextEdit]_vars

\* The poll alone, with calls that fail.  Every started callback is run on:
\* the event loop does not starve a continuation.
\*   fan:   A completed, B after_step A, C after_step A
\*   timed: A fixed_time at time 1, B simultaneous with A
\*   done:  A completed, B after_step A, C simultaneous with B
FaultScenarios ==
  { [s \in StepIds |->
       CASE s = "A" -> StepRow(TRUE, "P1", "completed", "manual", NoStep, 0, TRUE)
         [] s = "B" -> StepRow(TRUE, "P1", "not_started", "after_step", "A", 0, TRUE)
         [] OTHER   -> StepRow(TRUE, "P1", "not_started", "after_step", "A", 0, FALSE)],
    [s \in StepIds |->
       CASE s = "A" -> StepRow(TRUE, "P1", "not_started", "fixed_time", NoStep, 1, TRUE)
         [] s = "B" -> StepRow(TRUE, "P1", "not_started", "simultaneous", "A", 0, FALSE)
         [] OTHER   -> Absent],
    [s \in StepIds |->
       CASE s = "A" -> StepRow(TRUE, "P1", "completed", "manual", NoStep, 0, TRUE)
         [] s = "B" -> StepRow(TRUE, "P1", "not_started", "after_step", "A", 0, TRUE)
         [] OTHER   -> StepRow(TRUE, "P1", "not_started", "simultaneous", "B", 0, FALSE)] }

InitFault ==
  /\ steps \in FaultScenarios
  /\ InitCommon

PollRuns == Poll("tick") \/ Trigger("tick") \/ Return("tick")

NextFault ==
  \/ TickStart(MaxFaultOps)
  \/ TickStartFails(MaxFaultOps)
  \/ Failures("tick")
  \/ PollRuns

SpecFault == InitFault /\ [][NextFault]_vars /\ WF_vars(PollRuns)

\* The poll with notification sends that take their time: a send that was
\* started may return at any later moment, or never.
NextSlow ==
  \/ TickStart(MaxSlowOps)
  \/ TriggerSend("tick")
  \/ SendReturns("tick")
  \/ PollRuns

SpecSlow == InitEdit /\ [][NextSlow]_vars /\ WF_vars(PollRuns)

\* Two request handlers at a time, no poll: the awaited calls of two requests
\* (or of a request and a checkReleaseCompletion call) interleave.
Completion(t) ==
  \/ ReleaseCompletionWrite(t)
  \/ ReleaseCompletionNotify(t)

NextConc ==
  \E t \in ReqThreads :
    \/ Start(t, MaxConcOps)
    \/ Routes(t)
    \/ Completion(t)
    \/ Return(t)

SpecConc == Init /\ [][NextConc]_vars

\* The poll under fair ticks, one operation at a time: steps are created,
\* their status is edited, onStepStatusChange is called.  The cron callback
\* runs every minute and every started handler runs on; the last operation
\* of the budget is a tick.
CreateRows == { StepRow(TRUE, "P1", "not_started", "fixed_time", NoStep, 1, FALSE) }

StatusEdit(t) ==
  \/ PatchRouteUpdate(t)
  \/ PatchRouteHistory(t)
  \/ updateReleasePlanStatus(t)
  \/ PlanStatusWrite(t)
  \/ checkAndNotifyReleaseCompletion(t)
  \/ CompletionNotify(t)
  \/ CompletionWrite(t)

LiveRuns ==
  \E t \in Threads :
    \/ Poll(t)
    \/ Trigger(t)
    \/ StatusEdit(t)
    \/ StatusChangeCompletion(t)
    \/ Completion(t)
    \/ Return(t)

LiveTick == AllIdle /\ TickStart(MaxLiveOps)

NextLive ==
  \/ LiveTick
  \/ AllIdle /\ \E s \in StepIds, st \in Statuses : PatchRoute("r1", s, st, MaxLiveOps - 1)
  \/ AllIdle /\ \E s \in StepIds : onStepStatusChange("r1", s, MaxLiveOps - 1)
  \/ AllIdle /\ \E s \in StepIds, row \in CreateRows : CreateRoute(s, row, MaxLiveOps - 1)
  \/ LiveRuns

SpecLive == Init /\ [][NextLive]_vars /\ WF_vars(LiveTick) /\ WF_vars(LiveRuns)

\* The poll over steps whose simultaneousWithStepId references form cycles,
\* with status edits between the ticks.
\*   ring:  A simultaneous with B, B with C, C with A
\*   self:  A simultaneous with itself, B with A
\*   line:  A fixed_time at time 1, B simultaneous with A, C with B
CycleScenarios ==
  { [s \in StepIds |->
       CASE s = "A" -> StepRow(TRUE, "P1", "not_started", "simultaneous", "B", 0, TRUE)
         [] s = "B" -> StepRow(TRUE, "P1", "not_started", "simultaneous", "C", 0, FALSE)
         [] OTHER   -> StepRow(TRUE, "P1", "not_started", "simultaneous", "A", 0, FALSE)],
    [s \in StepIds |->
       CASE s = "A" -> StepRow(TRUE, "P1", "not_started", "simultaneous", "A", 0, TRUE)
         [] s = "B" -> StepRow(TRUE, "P1", "not_started", "simultaneous", "A", 0, FALSE)
         [] OTHER   -> Absent],
    [s \in StepIds |->
       CASE s = "A" -> StepRow(TRUE, "P1", "not_started", "fixed_time", NoStep, 1, TRUE)
         [] s = "B" -> StepRow(TRUE, "P1", "not_started", "simultaneous", "A", 0, FALSE)
         [] OTHER   -> StepRow(TRUE, "P1", "not_started", "simultaneous", "B", 0, FALSE)] }

InitCycle ==
  /\ steps \in CycleScenarios
  /\ InitCommon

\* The status edits set not_started or started: the handler of an edit gets
\* as far as the early return of checkAndNotifyReleaseCompletion.
CycleRuns ==
  \E t \in Threads :
    \/ Poll(t)
    \/ Trigger(t)
    \/ PatchRouteUpdate(t)
    \/ PatchRouteHistory(t)
    \/ updateReleasePlanStatus(t)
    \/ PlanStatusWrite(t)
    \/ checkAndNotifyReleaseCompletion(t)
    \/ Return(t)

NextCycle ==
  \/ AllIdle /\ TickStart(MaxCycleOps)
  \/ AllIdle /\ \E s \in StepIds, st \in {"not_started", "started"} :
                  PatchRoute("r1", s, st, MaxCycleOps)
  \/ CycleRuns

SpecCycle == InitCycle /\ [][NextCycle]_vars /\ WF_vars(CycleRuns)

\* Plans are cancelled while the poll ticks and requests and engine calls run.
NextCancel ==
  \/ TickStart(MaxCancelOps)
  \/ Start("r1", MaxCancelOps)
  \/ \E p \in Plans : PatchPlan(p, "cancelled", MaxCancelOps)
  \/ \E t \in Threads : Steps(t)

SpecCancel == Init /\ [][NextCancel]_vars

\* The derivation of updateReleasePlanStatus applied to every list of at most
\* MaxLen step statuses.
StatusLists == UNION { [1..n -> Statuses] : n \in 1..MaxLen }

InitDerive ==
  /\ steps \in { sc \in Scenarios : ~sc["B"].exists /\ sc["A"].stype = "after_step" }
  /\ planStatus = [p \in Plans |-> "planning"]
  /\ hist = [s \in StepIds |-> <<>>]
  /\ notif = [s \in StepIds |-> 0]
  /\ sysUser = FALSE
  /\ emailInit = FALSE
  /\ now = 0
  /\ threads = [t \in Threads |-> <<>>]
  /\ ops = 0
  /\ lastWrite = NoWrite
  /\ trig = [s \in StepIds |-> 0]
  /\ passTrig = {}
  /\ crcDone = {}
  /\ derIn \in StatusLists
  /\ derOut = ""
  /\ cronJobs = [s \in StepIds |-> 0]
  /\ jobs = <<>>
  /\ faults = {}

Derive ==
  /\ derOut = ""
  /\ derOut' = newStatus(derIn)
  /\ UNCHANGED <<steps, planStatus, hist, notif, sysUser, emailInit, now,
                 threads, ops, lastWrite, trig, passTrig, crcDone, derIn,
                 cronJobs, jobs, faults>>

SpecDerive == InitDerive /\ [][Derive]_vars

\* ---------------------------------------------------------------------
\* Properties
\* ---------------------------------------------------------------------

Frames(t) == { threads[t][i] : i \in 1..Len(threads[t]) }
Rows(s) == { hist[s][i] : i \in 1..Len(hist[s]) }

\* C1: a fixed_time step is triggered at most once per stay in not_started,
\* also when a poll tick and a manual trigger request overlap: between two
\* writes of not_started, at most one trigger write lands on the step.
C1_SingleTrigger ==
  \A s \in StepIds : steps[s].stype = "fixed_time" => trig[s] <= 1

\* C2: when a poll tick has finished and its dependent pass triggered an
\* after_step step b, every simultaneous step pointing at b has left
\* not_started as well.
C2_CascadeInSamePass ==
  Running("tick", "tick", "ret") =>
    \A b \in passTrig : \A c \in StepIds :
      ( /\ steps[b].stype = "after_step"
        /\ steps[c].exists
        /\ steps[c].stype = "simultaneous"
        /\ steps[c].ref = b )
      => steps[c].status # "not_started"

\* C3: a trigger, by the engine or by the manual route, never lands on a step
\* whose persisted status is already started: no such write and no history
\* row for such a write.
C3_TriggerOnStartedIsNoOp ==
  /\ lastWrite.by \in {"engine", "manual"} => lastWrite.prev # "started"
  /\ \A s \in StepIds : \A r \in Rows(s) :
       r.note \in {"auto", "manual"} => r.over # "started"

\* C4: a checkReleaseCompletion call on a plan that an earlier call already
\* completed and notified writes nothing and notifies nobody.
C4_CompletionIdempotent ==
  \A t \in Threads : \A f \in Frames(t) :
    f.fn = "checkReleaseCompletion" /\ f.again => f.eff = ""

\* C5: for every non-empty list of step statuses the derivation gives
\* completed when all are completed, otherwise active when at least one is
\* started, in_progress or completed, otherwise planning.
C5_Derivation ==
  derOut # "" =>
    derOut =
      IF \A i \in 1..Len(derIn) : derIn[i] = "completed" THEN "completed"
      ELSE IF \E i \in 1..Len(derIn) :
                derIn[i] \in {"started", "in_progress", "completed"} THEN "active"
      ELSE "planning"

C5_Witness ==
  /\ derIn = <<"completed", "not_started">>
  /\ derOut = "active"

\* C6: whenever the engine calls triggerStep for an after_step step, the
\* step it depends on exists and its persisted status is completed at that
\* moment.
C6_OnlyAfterCompleted ==
  [][\A t \in Threads :
       ( /\ Len(threads'[t]) > Len(threads[t])
         /\ Head(threads'[t]).fn = "triggerStep"
         /\ steps[Head(threads'[t]).sid].stype = "after_step" )
       => /\ steps[Head(threads'[t]).sid].ref \in StepIds
          /\ steps[steps[Head(threads'[t]).sid].ref].exists
          /\ steps[steps[Head(threads'[t]).sid].ref].status = "completed"]_vars

C6_Witness ==
  \E s \in StepIds :
    /\ steps[s].stype = "after_step"
    /\ lastWrite = [by |-> "engine", step |-> s, prev |-> "not_started",
                    new |-> "started"]
    /\ steps[steps[s].ref].status = "completed"

\* C7: a plan without steps never has status completed.
C7_EmptyPlanNeverCompleted ==
  \A p \in Plans :
    (\A s \in StepIds : ~(steps[s].exists /\ steps[s].plan = p))
    => planStatus[p] # "completed"

C7_Witness ==
  \E t \in Threads :
    /\ Running(t, "checkReleaseCompletion", "ret")
    /\ Top(t).pid = "P2"
    /\ planStatus["P2"] = "planning"

\* C8: every status write of the engine replaces not_started by started.
C8_EngineWritesFromNotStarted ==
  lastWrite.by = "engine" =>
    lastWrite.prev = "not_started" /\ lastWrite.new = "started"

\* C9: once every operation has returned, each plan with steps carries the
\* status derived from the current statuses of its steps.
C9_PlanStatusFollowsSteps ==
  (AllIdle /\ lastWrite.by # "none") =>
    \A p \in Plans :
      HasSteps(p) => planStatus[p] = newStatus(planStatuses(p))

\* C10: every status write moves a step along not_started -> started ->
\* in_progress -> completed, or into failed: never to an earlier status and
\* never from not_started past started.
Rank(st) ==
  CASE st = "not_started" -> 0
    [] st = "started" -> 1
    [] st = "in_progress" -> 2
    [] st = "completed" -> 3
    [] st = "failed" -> 4

C10_StepStateMachine ==
  lastWrite.by # "none" =>
    /\ Rank(lastWrite.new) >= Rank(lastWrite.prev)
    /\ lastWrite.prev = "not_started" => lastWrite.new \in {"not_started", "started", "failed"}
    /\ lastWrite.prev = "failed" => lastWrite.new = "failed"

\* C11: when a trigger operation returns, no step that is simultaneous with
\* the triggered step is still not_started: for the manual trigger route when
\* its handler has finished, for the poller when the tick has finished.
C11_TriggerCascades ==
  /\ \A t \in ReqThreads :
       (Running(t, "triggerRoute", "ret") /\ Top(t).eff # "400") =>
         \A c \in StepIds :
           ( /\ steps[c].exists
             /\ steps[c].stype = "simultaneous"
             /\ steps[c].ref = Top(t).sid )
           => steps[c].status # "not_started"
  /\ Running("tick", "tick", "ret") =>
       \A b \in passTrig : \A c \in StepIds :
         ( /\ steps[c].exists
           /\ steps[c].stype = "simultaneous"
           /\ steps[c].ref = b )
         => steps[c].status # "not_started"

\* C12: once nothing is in flight, a plan whose steps were each moved to
\* completed by one status edit (and by nothing else) has status completed,
\* also when the edits ran concurrently.
C12_PlanCompletedWithLastStep ==
  AllIdle =>
    \A p \in Plans :
      ( /\ HasSteps(p)
        /\ \A s \in getStepsByReleasePlan(p) :
             /\ steps[s].status = "completed"
             /\ Len(hist[s]) = 1
             /\ hist[s][1].note = "edit"
             /\ hist[s][1].new = "completed" )
      => planStatus[p] = "completed"

\* C13: a fixed_time step that both its timer and the poll reach gets one
\* history row not_started -> started from the engine and one trigger
\* notification from it.
AutoRows(s) == { i \in 1..Len(hist[s]) : hist[s][i].note = "auto" }

C13_TimerAndPollTriggerOnce ==
  \A s \in StepIds :
    (steps[s].stype = "fixed_time" /\ \E j \in 1..Len(jobs) : jobs[j].sid = s)
    => Cardinality(AutoRows(s)) <= 1

\* C14: a timer fires, and calls triggerStep, only for a step that still
\* exists, that no other path has triggered meanwhile, and for which it is the
\* registered timer.
C14_StaleTimerNeverFires ==
  [][\A j \in 1..Len(jobs) :
       (~jobs[j].fired /\ jobs'[j].fired) =>
         /\ steps[jobs[j].sid].exists
         /\ trig[jobs[j].sid] = 0
         /\ cronJobs[jobs[j].sid] = j]_vars

\* The calls of triggerStep that touch the persistence gateway.
TriggerCalls == {"updateStep", "addStepHistory", "getUser"}

\* C15: when updateStep, addStepHistory or getUser throws in a triggerStep
\* that found its step not_started, the step is still not_started and has no
\* row from the engine right after the failure.
C15_FailedTriggerChangesNothing ==
  [][\A f \in faults' \ faults :
       ( /\ f.call \in TriggerCalls
         /\ IF Top("tick").pc = "update"
              THEN steps[f.at].status = "not_started"
              ELSE Top("tick").over = "not_started" )
       => /\ steps'[f.at].status = "not_started"
          /\ \A i \in 1..Len(hist'[f.at]) : hist'[f.at][i].note # "auto"]_vars

\* A step the poll has to trigger now: a due fixed_time step, or an
\* after_step step whose dependency is completed.
Eligible(c) ==
  /\ steps[c].exists
  /\ steps[c].status = "not_started"
  /\ \/ steps[c].stype = "fixed_time" /\ IsDue(steps[c], now)
     \/ steps[c].stype = "after_step" /\ getStepStatus(steps[c].ref) = "completed"

\* C16: when a persistence call failed while a tick was evaluating one step,
\* no other step is left eligible at the end of that tick.
C16_TickGoesOnAfterFailure ==
  Running("tick", "tick", "ret") =>
    \A f \in faults :
      (f.tick = now /\ f.call \in TriggerCalls \cup {"getStep"}) =>
        \A c \in StepIds \ {f.at} : ~Eligible(c)

\* C17: no exception leaves the callback of a poll tick, and every tick that
\* has started returns, whatever failed in it, so that the next one can start.
C17_TickAlwaysReturns ==
  /\ [](\A t \in Threads : \A f \in Frames(t) : f.pc # "escaped")
  /\ (~Idle("tick")) ~> Idle("tick")

\* A tick has started after a tick in which a call failed.
C17_Witness ==
  /\ ~Idle("tick")
  /\ \E f \in faults : f.tick < now

\* C18: at the end of a tick in which nothing but notifications failed, every
\* step whose notification failed is started and has its row from the engine,
\* the steps simultaneous with it have been triggered, and it got no more
\* notification attempts than triggers.
C18_NotificationFailureIsHarmless ==
  (Running("tick", "tick", "ret") /\ \A g \in faults : g.call = "notify") =>
    \A f \in faults :
      f.tick = now =>
        /\ steps[f.at].status = "started"
        /\ AutoRows(f.at) # {}
        /\ \A c \in StepIds :
             ( /\ steps[c].exists
               /\ steps[c].stype = "simultaneous"
               /\ steps[c].ref = f.at )
             => steps[c].status # "not_started"
        /\ notif[f.at] <= trig[f.at]

C18_Witness ==
  /\ Running("tick", "tick", "ret")
  /\ \E f \in faults :
       /\ f.call = "notify"
       /\ f.tick = now
       /\ \E c \in StepIds : /\ steps[c].stype = "simultaneous"
                             /\ steps[c].ref = f.at
                             /\ steps[c].status = "started"

\* C19: every step of the system leaves the history rows of each step in
\* place and unchanged, possibly with a new row after them, unless it deletes
\* the step (alone or with its plan), which removes all the step's rows.
C19_HistoryAppendOnly ==
  [][\A s \in StepIds :
       \/ /\ Len(hist'[s]) >= Len(hist[s])
          /\ SubSeq(hist'[s], 1, Len(hist[s])) = hist[s]
       \/ /\ steps[s].exists
          /\ ~steps'[s].exists
          /\ hist'[s] = <<>>]_vars

\* A status edit has inserted its row and the step was deleted before the
\* handler finished: the row is gone with the step.
C19_Witness ==
  /\ Running("r1", "patchRoute", "derive")
  /\ ~steps[Top("r1").sid].exists
  /\ hist[Top("r1").sid] = <<>>

\* C20: every history row carries as previousStatus the status its write
\* replaced; once nothing is in flight, the latest status change of a step
\* has a row, and a step with rows has the newStatus of its latest row.
C20_HistoryMatchesStatus ==
  /\ \A s \in StepIds : \A r \in Rows(s) : r.prev = r.over
  /\ AllIdle =>
       /\ (lastWrite.by # "none" /\ lastWrite.prev # lastWrite.new)
            => hist[lastWrite.step] # <<>>
       /\ \A s \in StepIds :
            hist[s] # <<>> => steps[s].status = hist[s][Len(hist[s])].new

\* C21: while a poll tick runs with nothing else in flight, no step has
\* received more than one trigger write since it was last not_started, and
\* no row of the engine logs a write that landed on a step already started
\* by the same tick.
C21_OncePerTick ==
  ~Idle("tick") =>
    \A s \in StepIds :
      /\ trig[s] <= 1
      /\ Cardinality({ i \in AutoRows(s) : hist[s][i].over = "started" }) = 0

\* C22: no step of the poll changes the row, the history or the
\* notifications of a fixed_time step whose scheduled time is later than the
\* time of the tick; the step stays not_started for the next tick.
C22_FutureStepUntouched ==
  [][threads'["tick"] # threads["tick"] =>
       \A s \in StepIds :
         ( /\ steps[s].exists
           /\ steps[s].stype = "fixed_time"
           /\ steps[s].sched > now' )
         => /\ steps'[s] = steps[s]
            /\ hist'[s] = hist[s]
            /\ notif'[s] = notif[s]]_vars

\* C23: while the notification send of one step is outstanding and another
\* step is eligible, the poll can go on without the send returning.
C23_SlowSendDoesNotStall ==
  \A c \in StepIds :
    ( /\ Running("tick", "triggerStep", "sending")
      /\ c # Top("tick").sid
      /\ Eligible(c) )
    => ENABLED PollRuns

\* The completion checks that found every step of plan p completed and are
\* about to notify, or have notified, and write the plan completed.
CompletionSenders(p) ==
  { t \in Threads : \E f \in Frames(t) :
      /\ f.fn \in {"checkReleaseCompletion", "checkAndNotifyReleaseCompletion"}
      /\ f.pid = p
      /\ f.pc \in {"notify", "write"} \/ f.eff = "notified" }

\* C24: for a plan whose steps each changed status once (one completion of
\* the plan), at most one of the completion checks in flight together
\* requests the completion notification and writes the plan completed.
C24_OneCompletionPerPlan ==
  \A p \in Plans :
    ( /\ HasSteps(p)
      /\ \A s \in getStepsByReleasePlan(p) : Len(hist[s]) = 1 )
    => Cardinality(CompletionSenders(p)) <= 1

\* The timers of step s that are started, not stopped, and yet to fire.
Pending(s) ==
  { j \in 1..Len(jobs) : jobs[j].sid = s /\ jobs[j].on /\ ~jobs[j].fired }

\* C25: each step has at most one started timer that is yet to fire, and that
\* timer is the one the registry holds for the step.
C25_RegistryMatchesTimers ==
  \A s \in StepIds :
    /\ Cardinality(Pending(s)) <= 1
    /\ \A j \in Pending(s) : cronJobs[s] = j

\* A step the engine owes a start: not_started, and either fixed_time with
\* its scheduled time reached or past, or after_step with its dependency
\* completed.
Owed(c) ==
  /\ steps[c].exists
  /\ steps[c].status = "not_started"
  /\ \/ /\ steps[c].stype = "fixed_time"
        /\ steps[c].sched # 0
        /\ steps[c].sched <= now
     \/ /\ steps[c].stype = "after_step"
        /\ steps[c].ref \in StepIds
        /\ steps[steps[c].ref].exists
        /\ steps[steps[c].ref].status = "completed"

\* C26: no step is owed a start when a poll tick ends, none of type
\* after_step when an onStepStatusChange call for a completed step ends, and
\* under fair ticks a step that is owed a start while a tick is still to
\* come is started (unless it stops being owed one).
C26_OwedStepsAreStarted ==
  /\ [](Running("tick", "tick", "ret") => \A c \in StepIds : ~Owed(c))
  /\ [](\A t \in ReqThreads :
          (Running(t, "onStepStatusChange", "ret") /\ getStepStatus(Top(t).sid) = "completed")
          => \A c \in StepIds : steps[c].stype = "after_step" => ~Owed(c))
  /\ \A c \in StepIds :
       (Owed(c) /\ (ops < MaxLiveOps \/ ~Idle("tick"))) ~> ~Owed(c)

\* A tick has ended in whose dependent pass an after_step step with a
\* completed dependency was started.
C26_Witness ==
  /\ Running("tick", "tick", "ret")
  /\ \E c \in passTrig :
       /\ steps[c].stype = "after_step"
       /\ steps[c].status = "started"
       /\ getStepStatus(steps[c].ref) = "completed"

\* The triggerStep calls on the stack of task t, innermost first.
TriggerFrames(t) ==
  SelectSeq(threads[t], LAMBDA f : f.fn = "triggerStep")

\* C27: whatever the references between simultaneous steps, a cascade runs
\* for a step only after that step has left not_started, no step is under
\* two nested triggerStep calls, and every poll tick that started finishes.
C27_CascadeTerminates ==
  /\ [](\A t \in Threads : \A f \in Frames(t) :
          f.fn = "checkSimultaneousSteps" => steps[f.sid].status # "not_started")
  /\ [](\A t \in Threads : \A i, j \in 1..Len(TriggerFrames(t)) :
          i # j => TriggerFrames(t)[i].sid # TriggerFrames(t)[j].sid)
  /\ (~Idle("tick")) ~> AllIdle

\* A cascade has gone two triggerStep calls deep along a cycle of references.
C27_Witness ==
  /\ \A s \in StepIds : steps[s].exists => steps[s].stype = "simultaneous"
  /\ Len(TriggerFrames("tick")) = 2

\* C28: no trigger of the engine (from a poll tick, its cascade or a timer)
\* writes a step whose persisted scheduling type is manual at that moment.
C28_ManualNeverStarted ==
  [][\A t \in {"tick", "timer"} :
       (Running(t, "triggerStep", "update") /\ threads'[t] # threads[t])
       => steps[Top(t).sid].stype # "manual"]_vars

\* C29: no step of the system takes a plan out of status cancelled, and the
\* engine writes no step of a plan that is cancelled.
C29_CancelledStaysCancelled ==
  [][\A p \in Plans :
       planStatus[p] = "cancelled" =>
         /\ planStatus'[p] = "cancelled"
         /\ \A s \in getStepsByReleasePlan(p) :
              steps'[s].status = steps[s].status \/ lastWrite'.by # "engine"]_vars

\* The step r was started at some time (a history row says so) and has
\* stayed started or moved on to in_progress or completed.
HasStarted(r) ==
  /\ r \in StepIds
  /\ steps[r].exists
  /\ \E row \in Rows(r) : row.new = "started"
  /\ steps[r].status \in {"started", "in_progress", "completed"}

\* C30: when a poll tick ends (one operation at a time), no simultaneous step
\* is still not_started while the step it references has been started,
\* whoever started that step and whatever status it has moved on to.
C30_StartTogether ==
  Running("tick", "tick", "ret") =>
    \A c \in StepIds :
      ( /\ steps[c].exists
        /\ steps[c].stype = "simultaneous"
        /\ steps[c].status = "not_started" )
      => ~HasStarted(steps[c].ref)

====
